---- MODULE Spec2Model ----
(***************************************************************************)
(* SynchronizationService of ILIAS-Pegasus                                 *)
(* (src/src/services/synchronization.service.ts).                          *)
(*                                                                         *)
(* The service runs on one JavaScript thread: a step of the model is one   *)
(* run-to-completion piece of a method, from the point where it is called  *)
(* or resumed after an await / promise callback up to the next point where *)
(* it waits for a collaborator (storage, network, file transfer).          *)
(***************************************************************************)
EXTENDS Integers, Sequences, FiniteSets, TLC

\* ------------------------------------------------------------------ bounds
MaxNodes == 3        \* length of the list handed to checkForFileDownloads
MaxCalls == 4        \* direct callers of loadOfflineObjectRecursive
MaxFiles == 2        \* file downloads scheduled for one container
MaxEnqueue == 2      \* calls of addObjectsToSyncQueue
MaxLive == 2         \* calls of liveLoad

\* ------------------------------------------------------- program constants
NoWLAN == 1
FileTooBig == 2
QuotaExceeded == 3
MB == 1000 * 1000    \* settings are in megabytes: "* 1000 * 1000"

VARIABLES
    state,               \* SynchronizationService.state (static, lines 35-39)
    syncOfflineQueue,    \* line 44
    syncOfflineQueueCnt, \* line 45
    recursiveSyncQueue,  \* line 46: the SyncEntry of a call is named by the call
    footerJob,           \* footerToolbarOfflineContent's Job.FileDownload message
    isFavorite,          \* ILIASObject.isFavorite of every object
    calls,               \* the invocations of loadOfflineObjectRecursive
    strays,              \* file downloads still running after their Promise.all rejected
    drain,               \* where processOfflineSyncQueue is waiting
    enq,                 \* the invocations of addObjectsToSyncQueue
    live,                \* the invocations of liveLoad
    rows,                \* table synchronization: rows with recursiveSyncRunning 1 / 0
    hist,                \* what has happened so far (observations, not program state)
    pin,                 \* arguments and collaborator answers of checkForFileDownloads
    pout,                \* the SyncResults it resolves with, or NoResult
    dates,               \* new Date() and the endDate of the newest closed row
    lastSync,            \* line 48
    lastSyncString       \* line 49

lvars == <<dates, lastSync, lastSyncString>>
svars == <<state, syncOfflineQueue, syncOfflineQueueCnt, recursiveSyncQueue,
           footerJob, isFavorite, calls, strays, drain, enq, live, rows, hist>>
vars == <<state, syncOfflineQueue, syncOfflineQueueCnt, recursiveSyncQueue,
          footerJob, isFavorite, calls, strays, drain, enq, live, rows, hist,
          pin, pout, lvars>>

\* ===================================================================
\* checkForFileDownloads (QuotaPartitioner)
\* ===================================================================

Digits == {"0", "1", "2", "3", "4", "5", "6", "7", "8", "9"}

DigitVal(c) ==
    CASE c = "0" -> 0 [] c = "1" -> 1 [] c = "2" -> 2 [] c = "3" -> 3
      [] c = "4" -> 4 [] c = "5" -> 5 [] c = "6" -> 6 [] c = "7" -> 7
      [] c = "8" -> 8 [] c = "9" -> 9

\* Length of the longest prefix of s made of decimal digits.
RECURSIVE DigitPrefix(_, _)
DigitPrefix(s, i) ==
    IF i <= Len(s) /\ s[i] \in Digits THEN DigitPrefix(s, i + 1) ELSE i - 1

RECURSIVE DigitsValue(_, _)
DigitsValue(s, n) ==
    IF n = 0 THEN 0 ELSE 10 * DigitsValue(s, n - 1) + DigitVal(s[n])

\* parseInt(str, 10): leading blanks are skipped, one sign is accepted, the
\* longest run of digits is read, anything after it is ignored; NaN when no
\* digit was read.  A number is a record: nan, or its value.
RECURSIVE SkipBlanks(_)
SkipBlanks(s) ==
    IF s # <<>> /\ Head(s) = " " THEN SkipBlanks(Tail(s)) ELSE s

ParseInt(str) ==
    LET t == SkipBlanks(str)
        neg == t # <<>> /\ Head(t) = "-"
        u == IF t # <<>> /\ Head(t) \in {"-", "+"} THEN Tail(t) ELSE t
        n == DigitPrefix(u, 1)
    IN  IF n = 0 THEN [nan |-> TRUE, val |-> 0]
        ELSE [nan |-> FALSE,
              val |-> IF neg THEN 0 - DigitsValue(u, n) ELSE DigitsValue(u, n)]

\* line 347: currentlyUsedSpace + fileSize <= availableSpace (false for NaN)
FitsQuotaStrict(used, fileSize, availableSpace) ==
    ~fileSize.nan /\ used + fileSize.val < availableSpace

FitsQuota(used, fileSize, availableSpace) ==
    ~fileSize.nan /\ used + fileSize.val <= availableSpace

\* line 348: fileSize <= settings.downloadSize * 1000 * 1000 (false for NaN)
FitsLimit(fileSize, downloadSize) ==
    ~fileSize.nan /\ fileSize.val <= downloadSize * MB

\* The body of the forEach, lines 345-359: the group one file object goes to.
ClassifyLimitFirst(fileObject, used, availableSpace, downloadSize) ==
    IF fileObject.needsDownload
    THEN LET fileSize == ParseInt(fileObject.fileSize)
         IN  IF FitsLimit(fileSize, downloadSize)
             THEN IF FitsQuota(used, fileSize, availableSpace)
                  THEN "downloads"
                  ELSE "noMoreSpace"
             ELSE "filesTooBig"
    ELSE "filesAlreadySynced"

ClassifyDropTooBig(fileObject, used, availableSpace, downloadSize) ==
    IF fileObject.needsDownload
    THEN LET fileSize == ParseInt(fileObject.fileSize)
         IN  IF FitsQuota(used, fileSize, availableSpace)
             THEN IF FitsLimit(fileSize, downloadSize)
                  THEN "downloads"
                  ELSE "dropped"
             ELSE "noMoreSpace"
    ELSE "filesAlreadySynced"

Classify(fileObject, used, availableSpace, downloadSize) ==
    IF fileObject.needsDownload
    THEN LET fileSize == ParseInt(fileObject.fileSize)
         IN  IF FitsQuota(used, fileSize, availableSpace)
             THEN IF FitsLimit(fileSize, downloadSize)
                  THEN "downloads"
                  ELSE "filesTooBig"
             ELSE "noMoreSpace"
    ELSE "filesAlreadySynced"

\* lines 329-336: the empty groups and the running total
EmptyGroups(space) ==
    [downloads |-> <<>>, filesTooBig |-> <<>>, noMoreSpace |-> <<>>,
     filesAlreadySynced |-> <<>>, currentlyUsedSpace |-> space]

\* lines 344-360: fileObjects.forEach, from index i on
RECURSIVE SortFiles(_, _, _, _, _)
SortFiles(fileObjects, i, acc, availableSpace, downloadSize) ==
    IF i > Len(fileObjects) THEN acc
    ELSE LET f == fileObjects[i]
             g == Classify(f, acc.currentlyUsedSpace, availableSpace, downloadSize)
             next ==
               CASE g = "downloads" ->
                      [acc EXCEPT !.downloads = Append(@, f),
                                  !.currentlyUsedSpace = @ + ParseInt(f.fileSize).val]
                 [] g = "filesTooBig" ->
                      [acc EXCEPT !.filesTooBig =
                           Append(@, [object |-> f, reason |-> FileTooBig])]
                 [] g = "noMoreSpace" ->
                      [acc EXCEPT !.noMoreSpace =
                           Append(@, [object |-> f, reason |-> QuotaExceeded])]
                 [] g = "filesAlreadySynced" ->
                      [acc EXCEPT !.filesAlreadySynced = Append(@, f)]
                 [] OTHER -> acc
         IN  SortFiles(fileObjects, i + 1, next, availableSpace, downloadSize)

IsFile(iliasObject) == iliasObject.type = "file"

\* lines 322-384: the SyncResults checkForFileDownloads resolves with.
\* fileDownloads holds one promise per entry of downloads (lines 366-376);
\* the model keeps their number.
CheckForFileDownloadsResult(iliasObjects, settings, space) ==
    LET availableSpace == settings.quotaSize * MB
        fileObjects == SelectSeq(iliasObjects, IsFile)
        g == SortFiles(fileObjects, 1, EmptyGroups(space), availableSpace,
                       settings.downloadSize)
    IN  [totalObjects |-> fileObjects,
         objectsDownloaded |-> g.downloads,
         objectsUnchanged |-> g.filesAlreadySynced,
         objectsLeftOut |-> g.filesTooBig \o g.noMoreSpace,
         fileDownloads |-> Len(g.downloads)]

\* ---- inputs of the partition specification
Str(n) ==
    CASE n = 0 -> <<"0">>
      [] n = 1 -> <<"1", "0", "0", "0", "0", "0", "0">>
      [] n = 2 -> <<"1", "0", "0", "0", "0", "0", "1">>
      [] n = 3 -> <<"2", "0", "0", "0", "0", "0", "0">>
      [] n = 4 -> <<" ", "5", "0", "0", "0", "0", "0", "b">>
      [] n = 5 -> <<"n", "/", "a">>

FileSizeStrings == {Str(n) : n \in {1, 2, 3, 4, 5}}

ObjectKinds ==
    {[type |-> "crs", needsDownload |-> FALSE, fileSize |-> <<>>]}
    \cup [type : {"file"}, needsDownload : BOOLEAN, fileSize : FileSizeStrings]

SeqsUpTo(S, n) == UNION {[1..k -> S] : k \in 0..n}

\* the objects of a listing are distinct objects: id is the object's identity
WithIds(kinds) ==
    [i \in 1..Len(kinds) |->
        [id |-> i, type |-> kinds[i].type,
         needsDownload |-> kinds[i].needsDownload,
         fileSize |-> kinds[i].fileSize]]

NoResult == [totalObjects |-> <<>>, objectsDownloaded |-> <<>>,
             objectsUnchanged |-> <<>>, objectsLeftOut |-> <<>>,
             fileDownloads |-> -1]

PartitionInputs ==
    /\ \E kinds \in SeqsUpTo(ObjectKinds, MaxNodes),
          quotaSize \in {0, 1, 2}, downloadSize \in {1, 2},
          space \in {0, 500000, 3000000} :
          pin = [iliasObjects |-> WithIds(kinds),
                 settings |-> [quotaSize |-> quotaSize,
                               downloadSize |-> downloadSize],
                 space |-> space]
    /\ pout = NoResult

\* checkForFileDownloads(iliasObjects), lines 322-393
CheckForFileDownloads ==
    /\ pout = NoResult
    /\ pout' = CheckForFileDownloadsResult(pin.iliasObjects, pin.settings, pin.space)
    /\ UNCHANGED <<pin, svars, lvars>>

PartitionNext == CheckForFileDownloads

\* ===================================================================
\* The service: state and helpers
\* ===================================================================

Nodes == {"A", "B"}                   \* the ILIASObjects of the model
DrainCall == 0                       \* the call made by processOfflineSyncQueue
DirectCalls == 1..MaxCalls           \* calls made by other callers (pages)
CallIds == {DrainCall} \cup DirectCalls
EnqIds == 1..MaxEnqueue
LiveIds == 1..MaxLive

NoJob == <<>>

\* the lists handed to addObjectsToSyncQueue: objects of the repository (the
\* favorites of line 95, or what a page selected), none of them twice
ObjectLists ==
    {l \in SeqsUpTo(Nodes, Cardinality(Nodes)) :
        \A i, j \in DOMAIN l : l[i] = l[j] => i = j}

\* the part of downloadContainerContent a call can be waiting in
Running == {"listing", "checking", "downloading", "learnplaces"}
Settled == {"resolved", "rejected"}

IdleCall == [pc |-> "idle", object |-> "A", tasks |-> 0, started |-> FALSE]
IdleLive == [pc |-> "idle", x |-> "none", y |-> "none", err |-> "none",
             ended |-> 0, published |-> 0, closed |-> FALSE]
\* list: the argument, kept until line 106 has used it
IdleEnq == [pc |-> "idle", list |-> <<>>]

ServiceInit ==
    /\ state = [liveLoading |-> FALSE, loadingOfflineContent |-> FALSE,
                recursiveSyncRunning |-> FALSE]
    /\ syncOfflineQueue = <<>>
    /\ syncOfflineQueueCnt = 0
    /\ recursiveSyncQueue = <<>>
    /\ footerJob = NoJob
    /\ isFavorite = [n \in Nodes |-> 1]
    /\ calls = [c \in CallIds |-> IdleCall]
    /\ strays = 0
    /\ drain = [pc |-> "idle", owner |-> 0]
    /\ enq = [e \in EnqIds |-> IdleEnq]
    /\ live = [p \in LiveIds |-> IdleLive]
    /\ rows = [open |-> 0, closed |-> 0]
    /\ hist = [below |-> {}, visited |-> <<>>, lastVisited |-> <<>>,
               lastLen |-> 0, drains |-> 0, unmarked |-> FALSE]

PartitionIdle ==
    /\ pin = [iliasObjects |-> <<>>,
              settings |-> [quotaSize |-> 0, downloadSize |-> 0], space |-> 0]
    /\ pout = NoResult

\* ILIASObject.setIsFavorite(value): the field is assigned when the method is
\* called; the promise it returns settles when the object has been saved.
SetIsFavorite(fav, object, value) == [fav EXCEPT ![object] = value]

\* ===================================================================
\* syncStarted / syncEnded (SyncSessionLedger)
\* ===================================================================

\* line 230: the local flag, set when syncStarted is called
SyncStartedFlag(st) == [st EXCEPT !.recursiveSyncRunning = TRUE]

\* line 232: INSERT ... VALUES (userId, date('now'), NULL, 1)
InsertRow(t) == [t EXCEPT !.open = @ + 1]

\* line 247: the local flag, cleared when syncEnded is called
SyncEndedFlag(st) == [st EXCEPT !.recursiveSyncRunning = FALSE]

\* line 252: UPDATE ... SET recursiveSyncRunning = 0 ... WHERE recursiveSyncRunning = 1
CloseRows(t) == [open |-> 0, closed |-> t.closed + t.open]

\* ===================================================================
\* updateLastSync (SyncSessionLedger, the last-sync label)
\* ===================================================================
\* A Date is known by what getFullYear(), getMonth() (0 = January) and
\* getDate() answer for it.

NoDate == [year |-> 0, month |-> 0, date |-> 0]

DigitStr(d) ==
    CASE d = 0 -> "0" [] d = 1 -> "1" [] d = 2 -> "2" [] d = 3 -> "3"
      [] d = 4 -> "4" [] d = 5 -> "5" [] d = 6 -> "6" [] d = 7 -> "7"
      [] d = 8 -> "8" [] d = 9 -> "9"

\* number + string, line 277: the decimal digits, nothing in front of them
RECURSIVE NumberToString(_)
NumberToString(n) ==
    IF n < 10 THEN <<DigitStr(n)>>
    ELSE Append(NumberToString(n \div 10), DigitStr(n % 10))

\* translate.instant(key): the text of the language file for key
Translate(key) == <<key>>

\* line 277, second operand: getDate() + "." + (getMonth() + 1) + "." + getFullYear()
DateString(d) ==
    NumberToString(d.date) \o <<".">> \o NumberToString(d.month + 1)
        \o <<".">> \o NumberToString(d.year)

\* lines 268-277: date_string
LastSyncString(now, last) ==
    LET date_string ==
          IF now.month = last.month /\ now.year = last.year
          THEN IF now.date = last.date THEN Translate("today")
               ELSE IF now.date - 1 = last.date THEN Translate("yesterday")
               ELSE <<>>
          ELSE <<>>
    IN  IF date_string # <<>> THEN date_string ELSE DateString(last)

\* lines 261-280: what updateLastSync leaves in lastSync and lastSyncString,
\* given the row the SELECT of line 260 found (NoDate: no row, line 262)
UpdateLastSyncResult(now, endDate, old) ==
    IF endDate = NoDate THEN old
    ELSE [lastSync |-> endDate, lastSyncString |-> LastSyncString(now, endDate)]

\* lines 254 and 257-282 at the end of syncEnded, t being the table before
\* the UPDATE of line 252: every row was begun and ended on the day of now
LastSyncUpdated(t) ==
    LET r == UpdateLastSyncResult(dates.now,
                 IF t.open + t.closed > 0 THEN dates.now ELSE NoDate,
                 [lastSync |-> lastSync, lastSyncString |-> lastSyncString])
    IN  /\ lastSync' = r.lastSync
        /\ lastSyncString' = r.lastSyncString

\* ---- inputs of the label specification
LeapYear(y) == (y % 4 = 0 /\ y % 100 # 0) \/ y % 400 = 0

DaysInMonth(y, m) ==
    CASE m = 1 -> IF LeapYear(y) THEN 29 ELSE 28
      [] m \in {3, 5, 8, 10} -> 30
      [] OTHER -> 31

Dates ==
    {d \in [year : {2023, 2024}, month : {0, 1, 2, 3, 4, 11},
            date : {1, 2, 9, 10, 28, 29, 30, 31}] :
        d.date <= DaysInMonth(d.year, d.month)}

LabelIdle ==
    /\ dates = [now |-> [year |-> 2024, month |-> 4, date |-> 10],
                endDate |-> NoDate]
    /\ lastSync = NoDate
    /\ lastSyncString = <<>>

LabelInputs ==
    /\ \E now \in Dates, endDate \in Dates \cup {NoDate} :
          dates = [now |-> now, endDate |-> endDate]
    /\ lastSync = NoDate
    /\ lastSyncString = <<>>

\* updateLastSync(userId), lines 257-282
UpdateLastSync ==
    /\ LET r == UpdateLastSyncResult(dates.now, dates.endDate,
                    [lastSync |-> lastSync, lastSyncString |-> lastSyncString])
       IN  /\ lastSync' = r.lastSync
           /\ lastSyncString' = r.lastSyncString
    /\ UNCHANGED <<dates, svars, pin, pout>>

LabelNext == UpdateLastSync

\* ===================================================================
\* loadOfflineObjectRecursive / downloadContainerContent
\* (RecursiveSyncCoordinator, DownloadDispatcher)
\* ===================================================================

\* lines 160-162: the call starts by marking the object as syncing.
InvokeRecursive(c, object) ==
    /\ calls' = [calls EXCEPT ![c] = [pc |-> "setFav", object |-> object,
                                      tasks |-> 0, started |-> FALSE]]
    /\ isFavorite' = SetIsFavorite(isFavorite, object, 2)

\* a page calls loadOfflineObjectRecursive(object)
RecCall(c, object) ==
    /\ c \in DirectCalls
    /\ calls[c].pc = "idle"
    /\ \A d \in DirectCalls : d < c => calls[d].pc # "idle"
    /\ InvokeRecursive(c, object)
    /\ UNCHANGED <<state, syncOfflineQueue, syncOfflineQueueCnt,
                   recursiveSyncQueue, footerJob, strays, drain, enq, live,
                   rows, hist, pin, pout, lvars>>

\* line 163: the test that decides between queueing and running
MustQueue(st) == st.recursiveSyncRunning

\* lines 163-178, after "await iliasObject.setIsFavorite(2)": the request is
\* pushed (lines 164-175) or downloadContainerContent is entered (line 178,
\* which runs up to the listing request of line 197).
RecFavSaved(c) ==
    /\ calls[c].pc = "setFav"
    /\ IF MustQueue(state)
       THEN /\ recursiveSyncQueue' = Append(recursiveSyncQueue, c)
            /\ calls' = [calls EXCEPT ![c].pc = "queued"]
            /\ hist' = [hist EXCEPT !.below = @ \cup
                          {<<recursiveSyncQueue[i], c>> : i \in DOMAIN recursiveSyncQueue}]
       ELSE /\ calls' = [calls EXCEPT ![c].pc = "listing", ![c].started = TRUE]
            /\ UNCHANGED <<recursiveSyncQueue, hist>>
    /\ UNCHANGED <<state, syncOfflineQueue, syncOfflineQueueCnt, footerJob,
                   isFavorite, strays, drain, enq, live, rows, pin, pout, lvars>>

\* line 197 resolves; lines 198-199 run up to the settings request (line 325)
RecListingOk(c) ==
    /\ calls[c].pc = "listing"
    /\ calls' = [calls EXCEPT ![c].pc = "checking"]
    /\ UNCHANGED <<state, syncOfflineQueue, syncOfflineQueueCnt,
                   recursiveSyncQueue, footerJob, isFavorite, strays, drain,
                   enq, live, rows, hist, pin, pout, lvars>>

\* lines 191-193: a rejection of downloadContainerContent is handed on as it
\* is; the then-callback of lines 179-190 is skipped.
RejectRecursive(c) ==
    /\ calls' = [calls EXCEPT ![c].pc = "rejected"]
    /\ UNCHANGED <<recursiveSyncQueue, isFavorite>>

\* lines 179-190: the then-callback.  The newest entry is popped and
\* loadOfflineObjectRecursive is called for it (line 182); what that call
\* settles with settles the entry (lines 183-187), so the popped call goes on
\* as the new invocation.
ResolveRecursive(c) ==
    IF recursiveSyncQueue # <<>>
    THEN LET n == Len(recursiveSyncQueue)
             sync == recursiveSyncQueue[n]
         IN  /\ recursiveSyncQueue' = SubSeq(recursiveSyncQueue, 1, n - 1)
             /\ calls' = [calls EXCEPT ![c].pc = "resolved",
                                       ![sync].pc = "setFav"]
             /\ isFavorite' = SetIsFavorite(isFavorite, calls[sync].object, 2)
    ELSE /\ calls' = [calls EXCEPT ![c].pc = "resolved"]
         /\ UNCHANGED <<recursiveSyncQueue, isFavorite>>

\* line 197 rejects (the listing failed)
RecListingFail(c) ==
    /\ calls[c].pc = "listing"
    /\ RejectRecursive(c)
    /\ UNCHANGED <<state, syncOfflineQueue, syncOfflineQueueCnt, footerJob,
                   strays, drain, enq, live, rows, hist, pin, pout, lvars>>

\* line 199 resolves: checkForFileDownloads has started n downloads (lines
\* 366-376) and line 200 waits for Promise.all of them; with none to wait for
\* the learnplaces are loaded at once (line 203).
RecFilesChecked(c, n) ==
    /\ calls[c].pc = "checking"
    /\ calls' = [calls EXCEPT ![c].pc = IF n = 0 THEN "learnplaces" ELSE "downloading",
                              ![c].tasks = n]
    /\ UNCHANGED <<state, syncOfflineQueue, syncOfflineQueueCnt,
                   recursiveSyncQueue, footerJob, isFavorite, strays, drain,
                   enq, live, rows, hist, pin, pout, lvars>>

\* one download resolves; Promise.all resolves with the last one
DownloadOk(c) ==
    /\ calls[c].pc = "downloading"
    /\ calls' = [calls EXCEPT ![c].tasks = @ - 1,
                              ![c].pc = IF calls[c].tasks = 1 THEN "learnplaces" ELSE @]
    /\ UNCHANGED <<state, syncOfflineQueue, syncOfflineQueueCnt,
                   recursiveSyncQueue, footerJob, isFavorite, strays, drain,
                   enq, live, rows, hist, pin, pout, lvars>>

\* one download rejects: Promise.all rejects at once, the catch of lines
\* 200-202 logs it and line 203 goes on while the other downloads still run
DownloadFailCancels(c) ==
    /\ calls[c].pc = "downloading"
    /\ calls' = [calls EXCEPT ![c].tasks = 0, ![c].pc = "learnplaces"]
    /\ UNCHANGED <<state, syncOfflineQueue, syncOfflineQueueCnt,
                   recursiveSyncQueue, footerJob, isFavorite, strays, drain,
                   enq, live, rows, hist, pin, pout, lvars>>

DownloadFailRejects(c) ==
    /\ calls[c].pc = "downloading"
    /\ RejectRecursive(c)
    /\ strays' = strays + calls[c].tasks - 1
    /\ UNCHANGED <<state, syncOfflineQueue, syncOfflineQueueCnt, footerJob,
                   drain, enq, live, rows, hist, pin, pout, lvars>>

DownloadFail(c) ==
    /\ calls[c].pc = "downloading"
    /\ calls' = [calls EXCEPT ![c].tasks = 0, ![c].pc = "learnplaces"]
    /\ strays' = strays + calls[c].tasks - 1
    /\ UNCHANGED <<state, syncOfflineQueue, syncOfflineQueueCnt,
                   recursiveSyncQueue, footerJob, isFavorite, drain, enq, live,
                   rows, hist, pin, pout, lvars>>

\* a download nobody waits for any more settles
StraySettles ==
    /\ strays > 0
    /\ strays' = strays - 1
    /\ UNCHANGED <<state, syncOfflineQueue, syncOfflineQueueCnt,
                   recursiveSyncQueue, footerJob, isFavorite, calls, drain,
                   enq, live, rows, hist, pin, pout, lvars>>

\* line 203 resolves, downloadContainerContent returns its summary
RecLearnplacesOk(c) ==
    /\ calls[c].pc = "learnplaces"
    /\ ResolveRecursive(c)
    /\ UNCHANGED <<state, syncOfflineQueue, syncOfflineQueueCnt, footerJob,
                   strays, drain, enq, live, rows, hist, pin, pout, lvars>>

\* line 203 rejects (a learnplace could not be loaded)
RecLearnplacesFail(c) ==
    /\ calls[c].pc = "learnplaces"
    /\ RejectRecursive(c)
    /\ UNCHANGED <<state, syncOfflineQueue, syncOfflineQueueCnt, footerJob,
                   strays, drain, enq, live, rows, hist, pin, pout, lvars>>

\* ===================================================================
\* liveLoad / executeLiveLoad (ShallowLoadController)
\* ===================================================================
\* A liveLoad call p is at live[p].pc.  Inside executeLiveLoad two things
\* run side by side: x, the syncEnded call that line 427 awaits (the argument
\* of .catch is evaluated, and syncEnded called, as soon as the chain of
\* lines 424-426 has been built), and y, the listing with its then-callbacks
\* (lines 424-426).  executeLiveLoad returns the chain only when x is done,
\* and line 427 hands a non-function to .catch, so a rejection of the chain
\* passes through to the catch of liveLoad (line 75).

\* lines 68-71: the flag is set and the user is requested
LiveLoadCall(p) ==
    /\ live[p].pc = "idle"
    /\ \A q \in LiveIds : q < p => live[q].pc # "idle"
    /\ live' = [live EXCEPT ![p].pc = "loadUser"]
    /\ state' = [state EXCEPT !.liveLoading = TRUE]
    /\ UNCHANGED <<syncOfflineQueue, syncOfflineQueueCnt, recursiveSyncQueue,
                   footerJob, isFavorite, calls, strays, drain, enq, rows,
                   hist, pin, pout, lvars>>

\* lines 72-73: syncStarted is called (lines 229-232)
LiveUserLoaded(p) ==
    /\ live[p].pc = "loadUser"
    /\ live' = [live EXCEPT ![p].pc = "insert"]
    /\ state' = SyncStartedFlag(state)
    /\ UNCHANGED <<syncOfflineQueue, syncOfflineQueueCnt, recursiveSyncQueue,
                   footerJob, isFavorite, calls, strays, drain, enq, rows,
                   hist, pin, pout, lvars>>

\* lines 233-234 and 74: the row is stored, executeLiveLoad runs up to its
\* await (lines 420-427): the listing is requested and syncEnded is called
LiveInsertOk(p) ==
    /\ live[p].pc = "insert"
    /\ rows' = InsertRow(rows)
    /\ live' = [live EXCEPT ![p].pc = "execute", ![p].x = "ending",
                            ![p].y = "listing"]
    /\ state' = SyncEndedFlag(state)
    /\ UNCHANGED <<syncOfflineQueue, syncOfflineQueueCnt, recursiveSyncQueue,
                   footerJob, isFavorite, calls, strays, drain, enq, hist,
                   pin, pout, lvars>>

\* lines 75-76: what the catch of liveLoad does with a rejection: it calls
\* syncEnded and keeps the error for line 79
CatchOmitsSyncEnded(p, error) ==
    /\ live' = [live EXCEPT ![p].pc = "rejected", ![p].err = error,
                            ![p].published = @ + 1]
    /\ UNCHANGED state

CatchRejection(p, error) ==
    /\ live' = [live EXCEPT ![p].pc = "catchEnd", ![p].err = error]
    /\ state' = SyncEndedFlag(state)

\* lines 235-237: the INSERT fails, syncStarted rejects
LiveInsertFail(p) ==
    /\ live[p].pc = "insert"
    /\ CatchRejection(p, "begin")
    /\ UNCHANGED <<syncOfflineQueue, syncOfflineQueueCnt, recursiveSyncQueue,
                   footerJob, isFavorite, calls, strays, drain, enq, rows,
                   hist, pin, pout, lvars>>

\* lines 82-85: the listing is handed to the caller
LiveResolved(p, x, y) ==
    /\ live' = [live EXCEPT ![p].pc = "resolved", ![p].x = x, ![p].y = y,
                            ![p].ended = @ + 1]
    /\ state' = [state EXCEPT !.liveLoading = FALSE]

\* the syncEnded awaited in line 427 is done (lines 250-254); with the
\* listing chain settled executeLiveLoad settles too
LiveAwaitedEndDone(p) ==
    /\ live[p].pc = "execute"
    /\ live[p].x = "ending"
    /\ rows' = CloseRows(rows)
    /\ LastSyncUpdated(rows)
    /\ CASE live[p].y = "ok" -> LiveResolved(p, "done", "ok")
         [] live[p].y = "failed" ->
              /\ live' = [live EXCEPT ![p].pc = "catchEnd", ![p].x = "done",
                                      ![p].err = "listing", ![p].ended = @ + 1]
              /\ state' = SyncEndedFlag(state)
         [] OTHER ->
              /\ live' = [live EXCEPT ![p].x = "done", ![p].ended = @ + 1]
              /\ UNCHANGED state
    /\ UNCHANGED <<syncOfflineQueue, syncOfflineQueueCnt, recursiveSyncQueue,
                   footerJob, isFavorite, calls, strays, drain, enq, hist,
                   pin, pout, dates>>

\* the listing resolves: line 425 calls syncEnded
LiveListingOk(p) ==
    /\ live[p].pc = "execute"
    /\ live[p].y = "listing"
    /\ live' = [live EXCEPT ![p].y = "ending"]
    /\ state' = SyncEndedFlag(state)
    /\ UNCHANGED <<syncOfflineQueue, syncOfflineQueueCnt, recursiveSyncQueue,
                   footerJob, isFavorite, calls, strays, drain, enq, rows,
                   hist, pin, pout, lvars>>

\* the listing rejects: lines 425-427 pass the rejection on; it reaches the
\* catch of liveLoad once executeLiveLoad has returned the chain
LiveListingFail(p) ==
    /\ live[p].pc = "execute"
    /\ live[p].y = "listing"
    /\ IF live[p].x = "done"
       THEN CatchRejection(p, "listing")
       ELSE /\ live' = [live EXCEPT ![p].y = "failed"]
            /\ UNCHANGED state
    /\ UNCHANGED <<syncOfflineQueue, syncOfflineQueueCnt, recursiveSyncQueue,
                   footerJob, isFavorite, calls, strays, drain, enq, rows,
                   hist, pin, pout, lvars>>

\* the syncEnded of line 425 is done; line 426 resolves with the listing
LiveThenEndDone(p) ==
    /\ live[p].pc = "execute"
    /\ live[p].y = "ending"
    /\ rows' = CloseRows(rows)
    /\ LastSyncUpdated(rows)
    /\ IF live[p].x = "done"
       THEN LiveResolved(p, "done", "ok")
       ELSE /\ live' = [live EXCEPT ![p].y = "ok", ![p].ended = @ + 1]
            /\ UNCHANGED state
    /\ UNCHANGED <<syncOfflineQueue, syncOfflineQueueCnt, recursiveSyncQueue,
                   footerJob, isFavorite, calls, strays, drain, enq, hist,
                   pin, pout, dates>>

\* observed when a rejection is handed to the caller of call p: no row is
\* open and the local flag is clear, unless another call has begun a session
\* of its own in the meantime
SessionClosed(p, t) ==
    /\ t.open = 0
    /\ \/ ~state.recursiveSyncRunning
       \/ \E q \in LiveIds \ {p} : live[q].pc = "insert"

\* lines 76-80: the syncEnded of the catch is done, "sync:complete" is
\* published and the error is handed to the caller; lines 82-85 are skipped
LiveCatchEndDone(p) ==
    /\ live[p].pc = "catchEnd"
    /\ rows' = CloseRows(rows)
    /\ LastSyncUpdated(rows)
    /\ live' = [live EXCEPT ![p].pc = "rejected", ![p].ended = @ + 1,
                            ![p].published = @ + 1,
                            ![p].closed = SessionClosed(p, rows')]
    /\ UNCHANGED <<state, syncOfflineQueue, syncOfflineQueueCnt,
                   recursiveSyncQueue, footerJob, isFavorite, calls, strays,
                   drain, enq, hist, pin, pout, dates>>

\* ===================================================================
\* addObjectsToSyncQueue / processOfflineSyncQueue (OfflineQueueDrainer)
\* ===================================================================

\* lines 146-152: the message, or the TypeError of line 148 when the queue
\* has no entry at the cursor
StatusMessage(queue, cnt) ==
    IF cnt + 1 \in DOMAIN queue
    THEN [ok |-> TRUE, job |-> <<cnt + 1, Len(queue), queue[cnt + 1]>>]
    ELSE [ok |-> FALSE, job |-> NoJob]

\* line 116
QueueDrained(queue, cnt) == Len(queue) = cnt

\* lines 117-120: the drain is over
FinishDrainKeepCnt(queue, cnt, job, fav, h) ==
    [queue |-> <<>>, cnt |-> cnt, loading |-> FALSE, job |-> job,
     fav |-> fav, pc |-> "idle",
     hist |-> [h EXCEPT !.visited = <<>>, !.lastVisited = h.visited,
                        !.lastLen = Len(queue), !.drains = 1]]

FinishDrain(queue, cnt, job, fav, h) ==
    [queue |-> <<>>, cnt |-> 0, loading |-> FALSE, job |-> job,
     fav |-> fav, pc |-> "idle",
     hist |-> [h EXCEPT !.visited = <<>>, !.lastVisited = h.visited,
                        !.lastLen = Len(queue), !.drains = 1]]

\* lines 137-138 for an object that is no favorite (line 128): the cursor
\* moves on and the job is removed
NextCnt(cnt) == cnt + 1

\* lines 115-140, from a call of processOfflineSyncQueue up to its first
\* await (line 129) or its return (line 120).  An object that is no favorite
\* any more is passed over without an await, so the recursion of line 139
\* goes on in the same step.
RECURSIVE ProcessOfflineSyncQueue(_, _, _, _, _)
ProcessOfflineSyncQueue(queue, cnt, job, fav, h) ==
    IF QueueDrained(queue, cnt)
    THEN FinishDrain(queue, cnt, job, fav, h)
    ELSE IF ~StatusMessage(queue, cnt).ok
    THEN \* line 123, then the TypeError of line 148
         [queue |-> queue, cnt |-> cnt, loading |-> TRUE, job |-> job,
          fav |-> fav, pc |-> "failed", hist |-> h]
    ELSE LET ilObj == queue[cnt + 1]
             seen == [h EXCEPT !.visited = Append(@, cnt), !.unmarked = FALSE]
         IN  IF fav[ilObj] # 0
             THEN [queue |-> queue, cnt |-> cnt, loading |-> TRUE,
                   job |-> StatusMessage(queue, cnt).job,
                   fav |-> SetIsFavorite(fav, ilObj, 2), pc |-> "fav2",
                   hist |-> seen]
             ELSE ProcessOfflineSyncQueue(queue, NextCnt(cnt), NoJob, fav, seen)

\* the state after such a piece of processOfflineSyncQueue; the call of
\* addObjectsToSyncQueue that started the drain returns with it
Drained(r, owner) ==
    /\ syncOfflineQueue' = r.queue
    /\ syncOfflineQueueCnt' = r.cnt
    /\ state' = [state EXCEPT !.loadingOfflineContent = r.loading]
    /\ footerJob' = r.job
    /\ isFavorite' = r.fav
    /\ hist' = r.hist
    /\ drain' = [pc |-> r.pc, owner |-> IF r.pc = "idle" THEN 0 ELSE owner]
    /\ enq' = [enq EXCEPT ![owner] =
                 [pc |-> CASE r.pc = "idle" -> "done"
                           [] r.pc = "failed" -> "failed"
                           [] OTHER -> "draining",
                  list |-> <<>>]]

\* lines 104-105
AddObjectsCall(e, iliasObjects) ==
    /\ enq[e].pc = "idle"
    /\ \A d \in EnqIds : d < e => enq[d].pc # "idle"
    /\ enq' = [enq EXCEPT ![e] = [pc |-> "loadUser", list |-> iliasObjects]]
    /\ UNCHANGED <<state, syncOfflineQueue, syncOfflineQueueCnt,
                   recursiveSyncQueue, footerJob, isFavorite, calls, strays,
                   drain, live, rows, hist, pin, pout, lvars>>

\* line 108
DrainIdle(st) == ~st.loadingOfflineContent

\* lines 106-109
AddObjectsResume(e) ==
    /\ enq[e].pc = "loadUser"
    /\ LET queue == syncOfflineQueue \o enq[e].list
           msg == StatusMessage(queue, syncOfflineQueueCnt)
       IN  IF ~msg.ok
           THEN /\ syncOfflineQueue' = queue
                /\ enq' = [enq EXCEPT ![e] = [pc |-> "error", list |-> <<>>]]
                /\ UNCHANGED <<state, syncOfflineQueueCnt, footerJob,
                               isFavorite, drain, hist>>
           ELSE IF DrainIdle(state)
                THEN Drained(ProcessOfflineSyncQueue(queue, syncOfflineQueueCnt,
                                 msg.job, isFavorite, hist), e)
                ELSE /\ syncOfflineQueue' = queue
                     /\ footerJob' = msg.job
                     /\ enq' = [enq EXCEPT ![e] = [pc |-> "done", list |-> <<>>]]
                     /\ UNCHANGED <<state, syncOfflineQueueCnt, isFavorite,
                                    drain, hist>>
    /\ UNCHANGED <<recursiveSyncQueue, calls, strays, live, rows, pin, pout, lvars>>

\* line 129 resolves; line 130 calls loadOfflineObjectRecursive
DrainFavSaved ==
    /\ drain.pc = "fav2"
    /\ drain' = [drain EXCEPT !.pc = "recursive"]
    /\ InvokeRecursive(DrainCall, syncOfflineQueue[syncOfflineQueueCnt + 1])
    /\ UNCHANGED <<state, syncOfflineQueue, syncOfflineQueueCnt,
                   recursiveSyncQueue, footerJob, strays, enq, live, rows,
                   hist, pin, pout, lvars>>

\* line 130 resolves; line 131 asks for the subtree to be marked
DrainRecursiveDone ==
    /\ drain.pc = "recursive"
    /\ calls[DrainCall].pc = "resolved"
    /\ drain' = [drain EXCEPT !.pc = "setOffline"]
    /\ calls' = [calls EXCEPT ![DrainCall].pc = "idle"]
    /\ UNCHANGED <<state, syncOfflineQueue, syncOfflineQueueCnt,
                   recursiveSyncQueue, footerJob, isFavorite, strays, enq,
                   live, rows, hist, pin, pout, lvars>>

\* line 130 rejects: processOfflineSyncQueue and the addObjectsToSyncQueue
\* call that awaits it reject; nothing resets the flag or the cursor
DrainRecursiveFailed ==
    /\ drain.pc = "recursive"
    /\ calls[DrainCall].pc = "rejected"
    /\ drain' = [drain EXCEPT !.pc = "failed"]
    /\ enq' = [enq EXCEPT ![drain.owner].pc = "failed"]
    /\ calls' = [calls EXCEPT ![DrainCall].pc = "idle"]
    /\ UNCHANGED <<state, syncOfflineQueue, syncOfflineQueueCnt,
                   recursiveSyncQueue, footerJob, isFavorite, strays, live,
                   rows, hist, pin, pout, lvars>>

\* line 133: the second look at the favorite state
StillFavorite(fav, ilObj) == fav[ilObj] # 0

\* lines 137-139, at the end of a step
StepDone(fav, h) ==
    Drained(ProcessOfflineSyncQueue(syncOfflineQueue,
                NextCnt(syncOfflineQueueCnt), NoJob, fav, h), drain.owner)

\* line 131 resolves; lines 133-134.  removeFromFavorites is not awaited:
\* the step goes on at once (lines 137-139).
DrainMarkedOffline ==
    /\ drain.pc = "setOffline"
    /\ LET ilObj == syncOfflineQueue[syncOfflineQueueCnt + 1]
       IN  IF StillFavorite(isFavorite, ilObj)
           THEN /\ isFavorite' = SetIsFavorite(isFavorite, ilObj, 1)
                /\ drain' = [drain EXCEPT !.pc = "fav1"]
                /\ UNCHANGED <<state, syncOfflineQueue, syncOfflineQueueCnt,
                               footerJob, enq, hist>>
           ELSE StepDone(SetIsFavorite(isFavorite, ilObj, 0), hist)
    /\ UNCHANGED <<recursiveSyncQueue, calls, strays, live, rows, pin, pout, lvars>>

\* line 133 resolves; lines 137-139
DrainStableSaved ==
    /\ drain.pc = "fav1"
    /\ StepDone(isFavorite, hist)
    /\ UNCHANGED <<recursiveSyncQueue, calls, strays, live, rows, pin, pout, lvars>>

\* the user takes an object out of the favorites (ILIASObject.
\* removeFromFavorites, called by the pages): "the user may has unmarked the
\* object in the mean time", lines 127 and 132
UserUnmarks(n) ==
    /\ isFavorite[n] # 0
    /\ isFavorite' = SetIsFavorite(isFavorite, n, 0)
    /\ hist' = IF /\ drain.pc \in {"fav2", "recursive", "setOffline"}
                  /\ syncOfflineQueue[syncOfflineQueueCnt + 1] = n
               THEN [hist EXCEPT !.unmarked = TRUE]
               ELSE hist
    /\ UNCHANGED <<state, syncOfflineQueue, syncOfflineQueueCnt,
                   recursiveSyncQueue, footerJob, calls, strays, drain, enq,
                   live, rows, pin, pout, lvars>>

\* ===================================================================
\* Specifications
\* ===================================================================

\* downloadContainerContent and what follows it, for call c
Recursive(c) ==
    \/ RecFavSaved(c)
    \/ RecListingOk(c)
    \/ RecListingFail(c)
    \/ \E n \in 0..MaxFiles : RecFilesChecked(c, n)
    \/ DownloadOk(c)
    \/ DownloadFail(c)
    \/ RecLearnplacesOk(c)
    \/ RecLearnplacesFail(c)

LiveLoad(p) ==
    \/ LiveLoadCall(p)
    \/ LiveUserLoaded(p)
    \/ LiveInsertOk(p)
    \/ LiveInsertFail(p)
    \/ LiveAwaitedEndDone(p)
    \/ LiveListingOk(p)
    \/ LiveListingFail(p)
    \/ LiveThenEndDone(p)
    \/ LiveCatchEndDone(p)

Drainer ==
    \/ \E e \in EnqIds, l \in ObjectLists : AddObjectsCall(e, l)
    \/ \E e \in EnqIds : AddObjectsResume(e)
    \/ DrainFavSaved
    \/ DrainRecursiveDone
    \/ DrainRecursiveFailed
    \/ DrainMarkedOffline
    \/ DrainStableSaved

Init == ServiceInit /\ PartitionIdle /\ LabelIdle

\* loadOfflineObjectRecursive never reads the object it is given: the pages
\* of the coordinator specification each sync an object of their own
PageObject(c) == IF c % 2 = 1 THEN "A" ELSE "B"

\* The coordinator: pages calling loadOfflineObjectRecursive while a
\* liveLoad sets and clears recursiveSyncRunning.
Next ==
    \/ \E c \in DirectCalls : RecCall(c, PageObject(c))
    \/ \E c \in DirectCalls : Recursive(c)
    \/ StraySettles
    \/ LiveLoad(1)

Spec == Init /\ [][Next]_vars

\* the continuations of a liveLoad call that has been made
LiveSteps(p) ==
    \/ LiveUserLoaded(p)
    \/ LiveInsertOk(p)
    \/ LiveInsertFail(p)
    \/ LiveAwaitedEndDone(p)
    \/ LiveListingOk(p)
    \/ LiveListingFail(p)
    \/ LiveThenEndDone(p)
    \/ LiveCatchEndDone(p)

\* what the coordinator does by itself once it has been called: every
\* promise of a collaborator settles and its callbacks run
CoordinatorSteps ==
    \/ \E c \in DirectCalls : Recursive(c)
    \/ StraySettles
    \/ LiveSteps(1)

SpecFair == Init /\ [][Next]_vars /\ WF_vars(CoordinatorSteps)

\* The drainer: addObjectsToSyncQueue and processOfflineSyncQueue with the
\* recursive sync of each pending object and the user unmarking favorites.
DrainNext ==
    \/ Drainer
    \/ Recursive(DrainCall)
    \/ \E n \in Nodes : UserUnmarks(n)
    \/ StraySettles

SpecDrain == Init /\ [][DrainNext]_vars

\* what the service does by itself once it has been called: every promise of
\* a collaborator settles and its callbacks run.  The calls of pages and the
\* user (AddObjectsCall, UserUnmarks) are not owed to anybody.
DrainSteps ==
    \/ \E e \in EnqIds : AddObjectsResume(e)
    \/ DrainFavSaved
    \/ DrainRecursiveDone
    \/ DrainRecursiveFailed
    \/ DrainMarkedOffline
    \/ DrainStableSaved
    \/ Recursive(DrainCall)
    \/ StraySettles

\* The drainer left to itself: pages hand over objects, the user leaves the
\* favorites as they are.
DrainFairNext ==
    \/ Drainer
    \/ Recursive(DrainCall)
    \/ StraySettles

SpecDrainFair == Init /\ [][DrainFairNext]_vars /\ WF_vars(DrainSteps)

\* liveLoad calls next to each other
LiveNext == \E p \in LiveIds : LiveLoad(p)

SpecLive == Init /\ [][LiveNext]_vars

InitPartition == ServiceInit /\ PartitionInputs /\ LabelIdle

SpecPartition == InitPartition /\ [][PartitionNext]_vars

InitLabel == ServiceInit /\ PartitionIdle /\ LabelInputs

SpecLabel == InitLabel /\ [][LabelNext]_vars

\* ===================================================================
\* Properties of checkForFileDownloads
\* ===================================================================

Objects(leftOut) == [i \in DOMAIN leftOut |-> leftOut[i].object]

ReasonIs2(e) == e.reason = FileTooBig
ReasonIs3(e) == e.reason = QuotaExceeded

Scheduled == pout.objectsDownloaded
AlreadySynced == pout.objectsUnchanged
TooLarge == Objects(SelectSeq(pout.objectsLeftOut, ReasonIs2))
QuotaExceededGroup == Objects(SelectSeq(pout.objectsLeftOut, ReasonIs3))

Occurrences(seq, x) == Cardinality({i \in DOMAIN seq : seq[i] = x})

InGroups(x) ==
    Occurrences(Scheduled, x) + Occurrences(AlreadySynced, x)
    + Occurrences(TooLarge, x) + Occurrences(QuotaExceededGroup, x)

Members(seq) == {seq[i] : i \in DOMAIN seq}

Increasing(seq) ==
    \A i, j \in DOMAIN seq : i < j => seq[i].id < seq[j].id

SizeOf(o) == ParseInt(o.fileSize)

\* bytes used when object o is looked at: the starting used bytes plus the
\* sizes of the scheduled objects that come before it in the input
RECURSIVE SumBefore(_, _, _)
SumBefore(seq, k, id) ==
    IF k = 0 THEN 0
    ELSE SumBefore(seq, k - 1, id)
         + (IF seq[k].id < id THEN SizeOf(seq[k]).val ELSE 0)

UsedBefore(o) == pin.space + SumBefore(Scheduled, Len(Scheduled), o.id)

Quota == pin.settings.quotaSize * MB
PerFileLimit == pin.settings.downloadSize * MB

C5_PartitionBounds ==
    pout # NoResult =>
        /\ \A k \in DOMAIN Scheduled :
              /\ ~SizeOf(Scheduled[k]).nan
              /\ UsedBefore(Scheduled[k]) + SizeOf(Scheduled[k]).val <= Quota
              /\ SizeOf(Scheduled[k]).val <= PerFileLimit
        /\ Increasing(Scheduled)
        /\ \A i \in DOMAIN pin.iliasObjects :
              LET o == pin.iliasObjects[i]
                  size == SizeOf(o)
              IN  (o.type = "file" /\ o.needsDownload /\ ~size.nan) =>
                    /\ (UsedBefore(o) + size.val = Quota /\ size.val <= PerFileLimit)
                          => o \in Members(Scheduled)
                    /\ (size.val = PerFileLimit /\ UsedBefore(o) + size.val <= Quota)
                          => o \in Members(Scheduled)

C5_Witness ==
    /\ pout # NoResult
    /\ Len(Scheduled) >= 2
    /\ \E k \in DOMAIN Scheduled :
          /\ UsedBefore(Scheduled[k]) + SizeOf(Scheduled[k]).val = Quota
          /\ SizeOf(Scheduled[k]).val = PerFileLimit

InFlight == {c \in CallIds : calls[c].pc \in Running}

\* C1: at most one downloadContainerContent run (listing, file downloads,
\* learnplaces) is in flight at any instant.
C1_MutualExclusion == Cardinality(InFlight) <= 1

\* C2: requests are serviced in reverse arrival order, one after the other:
\* when request b was pending at the time request c was pushed, the download
\* of b starts only after the download of c has been started and completed.
C2_LifoOrder ==
    \A pair \in hist.below :
        calls[pair[1]].started =>
            calls[pair[2]].started /\ calls[pair[2]].pc \in Settled

\* C3: whenever a running subtree download completes, by success or by
\* failure, with requests pending, the newest pending request is popped and
\* its call started in the same step.
C3_ChainContinues ==
    [][\A c \in CallIds :
          (/\ calls[c].pc \in Running
           /\ calls'[c].pc \in Settled
           /\ recursiveSyncQueue # <<>>)
          => /\ Len(recursiveSyncQueue') = Len(recursiveSyncQueue) - 1
             /\ calls'[recursiveSyncQueue[Len(recursiveSyncQueue)]].pc = "setFav"
      ]_vars

\* ===================================================================
\* Properties of the drainer (specification SpecDrain)
\* ===================================================================

Upto(n) == [i \in 1..n |-> i - 1]

\* C7: the indices visited by a drain are 0, 1, 2, ... without gap or
\* repetition, the cursor is the number of finished visits, a drain that
\* has come to its end has visited every index of the pending list it
\* cleared (appended entries included), and the flag loadingOfflineContent
\* is false exactly when the cursor equals the length of the pending list.
C7_DrainerInvariant ==
    /\ (~state.loadingOfflineContent)
          <=> (syncOfflineQueueCnt = Len(syncOfflineQueue))
    /\ hist.visited = Upto(Len(hist.visited))
    /\ Len(hist.visited) =
          syncOfflineQueueCnt + (IF drain.pc = "idle" THEN 0 ELSE 1)
    /\ hist.drains = 1 => hist.lastVisited = Upto(hist.lastLen)

\* a drain has ended that was given more objects while it ran
C7_Witness ==
    /\ hist.drains = 1
    /\ hist.lastLen > Cardinality(Nodes)
    /\ drain.pc = "idle"

\* C8: a call of addObjectsToSyncQueue with an empty list completes without
\* error, starts no drain and leaves the pending list, the cursor, the state
\* flags and the status display as they were.
C8_EmptyEnqueueNoOp ==
    [][\A e \in EnqIds :
          (/\ enq[e].pc = "loadUser"
           /\ enq[e].list = <<>>
           /\ enq'[e].pc # "loadUser")
          => /\ enq'[e].pc = "done"
             /\ UNCHANGED <<syncOfflineQueue, syncOfflineQueueCnt, state,
                            footerJob, drain>>
      ]_vars

\* C9: when the drainer has synced an object: if the user unmarked it after
\* the drainer began with it and before the second look, it was removed from
\* the favorites and not set to 1; if not, it was set to 1; and it is not
\* left in state 2 when the step is over.
C9_FavoriteRecheck ==
    [][LET ilObj == syncOfflineQueue[syncOfflineQueueCnt + 1]
       IN  /\ (drain.pc = "setOffline" /\ drain'.pc # "setOffline")
                => /\ hist.unmarked
                        => drain'.pc # "fav1" /\ isFavorite[ilObj] = 0
                   /\ ~hist.unmarked
                        => drain'.pc = "fav1" /\ isFavorite'[ilObj] = 1
           /\ (drain.pc = "fav1" /\ drain'.pc # "fav1")
                => isFavorite[ilObj] # 2
      ]_vars

\* ===================================================================
\* Properties of liveLoad (specification SpecLive)
\* ===================================================================

\* C10: a liveLoad call whose session begin or listing failed is never
\* resolved, and when its rejection is handed to the caller a syncEnded of
\* the call has been completed: no row is open in storage and the local flag
\* is clear (unless another call has begun a session since).
C10_FailureClosesSession ==
    \A p \in LiveIds :
        /\ live[p].pc = "rejected" => live[p].ended >= 1 /\ live[p].closed
        /\ (live[p].err # "none" \/ live[p].y = "failed")
              => live[p].pc \in {"execute", "catchEnd", "rejected"}

C10_Witness ==
    \E p, q \in LiveIds :
        /\ live[p].pc = "rejected" /\ live[p].err = "begin"
        /\ live[q].pc = "rejected" /\ live[q].err = "listing"

\* ===================================================================
\* Properties of updateLastSync (specification SpecLabel)
\* ===================================================================

\* the calendar day before d
DayBefore(d) ==
    IF d.date > 1 THEN [d EXCEPT !.date = @ - 1]
    ELSE IF d.month > 0
         THEN [year |-> d.year, month |-> d.month - 1,
               date |-> DaysInMonth(d.year, d.month - 1)]
         ELSE [year |-> d.year - 1, month |-> 11, date |-> 31]

\* C14: once updateLastSync has read an end date, the label is "today" iff
\* the end date is the calendar day of now, "yesterday" iff it is the day
\* before now (also across the boundary of a month or a year), and otherwise
\* day.month.year of the end date, month counted from 1, no zero padding;
\* now = 2024-05-10 and end date 2024-04-01 give "1.4.2024".
C14_LastSyncLabel ==
    lastSync # NoDate =>
        /\ lastSync = dates.endDate
        /\ lastSyncString = Translate("today") <=> dates.endDate = dates.now
        /\ lastSyncString = Translate("yesterday")
              <=> dates.endDate = DayBefore(dates.now)
        /\ (dates.endDate # dates.now /\ dates.endDate # DayBefore(dates.now))
              => lastSyncString = DateString(dates.endDate)
        /\ (/\ dates.now = [year |-> 2024, month |-> 4, date |-> 10]
            /\ dates.endDate = [year |-> 2024, month |-> 3, date |-> 1])
              => lastSyncString = <<"1", ".", "4", ".", "2", "0", "2", "4">>

\* ===================================================================
\* Further properties of liveLoad (specification SpecLive)
\* ===================================================================

\* C11: with nothing but liveLoad calls running, no step of a call changes
\* loadingOfflineContent or recursiveSyncRunning; liveLoading is the only
\* flag liveLoad writes.
C11_LiveLoadFrame ==
    [][/\ state'.loadingOfflineContent = state.loadingOfflineContent
       /\ state'.recursiveSyncRunning = state.recursiveSyncRunning
      ]_vars

\* C12: the table never holds more than one row of the user with
\* recursiveSyncRunning = 1.
C12_SingleOpenSession == rows.open <= 1

\* C13: a liveLoad call that has settled, resolved or rejected, has published
\* "sync:complete" at least once.
C13_CompletionEvent ==
    \A p \in LiveIds :
        live[p].pc \in {"resolved", "rejected"} => live[p].published >= 1

\* ===================================================================
\* Properties of the file downloads (specification SpecDrainFair)
\* ===================================================================

RECURSIVE SumTasks(_)
SumTasks(S) ==
    IF S = {} THEN 0
    ELSE LET c == CHOOSE x \in S : TRUE
         IN  calls[c].tasks + SumTasks(S \ {c})

\* the file downloads that have been started and have not settled
DownloadsInFlight == strays + SumTasks(CallIds)

\* C15: a container that waits for its downloads has one task in flight per
\* scheduled node; a step ends at most one task, so a failing task takes no
\* other task with it; and the wait of a container ends, with or without
\* failed tasks, in the loading of the learnplaces, never in a rejection.
C15_FailureIsolation ==
    [][/\ DownloadsInFlight' >= DownloadsInFlight - 1
       /\ \A c \in CallIds :
             /\ (calls[c].pc = "checking" /\ calls'[c].pc # "checking")
                   => DownloadsInFlight' = DownloadsInFlight + calls'[c].tasks
             /\ calls[c].pc = "downloading"
                   => calls'[c].pc \in {"downloading", "learnplaces"}
      ]_vars

\* a task of the first container synced has failed while another was
\* running, and the summary of the container has been returned
C15_Witness ==
    /\ strays > 0
    /\ calls[DrainCall].pc = "resolved"
    /\ hist.drains = 0
    /\ syncOfflineQueueCnt = 0

\* ===================================================================
\* Further properties of the drainer (specification SpecDrainFair)
\* ===================================================================

C17_ChainFlagLifecycle ==
    /\ \A c \in CallIds : calls[c].pc \in Running => state.recursiveSyncRunning
    /\ (/\ InFlight = {}
        /\ recursiveSyncQueue = <<>>
        /\ \A c \in CallIds : calls[c].pc # "setFav"
        /\ \A p \in LiveIds : live[p].pc # "insert")
          => ~state.recursiveSyncRunning

\* C18 (specification SpecDrain): when downloadContainerContent returns its
\* summary, no file download is in flight.  The drainer syncs one container
\* at a time, so a download in flight at that moment belongs to the
\* container that returns or to one that returned before it.
C18_DownloadsAwaited ==
    [][\A c \in CallIds :
          (calls[c].pc = "learnplaces" /\ calls'[c].pc = "resolved")
             => DownloadsInFlight = 0
      ]_vars

\* C19 (specification SpecFair): a request that was pushed on
\* recursiveSyncQueue is eventually popped and settled.
C19_QueuedEventuallyServiced ==
    \A c \in CallIds :
        (calls[c].pc = "queued") ~> (calls[c].pc \in Settled)

\* C20 (specification SpecDrainFair): after the recursive sync of a pending
\* object was rejected, loadingOfflineContent eventually is false again.
C20_DrainRecoversAfterFailure ==
    (calls[DrainCall].pc = "rejected") ~> (~state.loadingOfflineContent)

\* C21 (specification SpecLive): a step that starts a liveLoad call leaves
\* liveLoading true, and a step after which every liveLoad call made so far
\* has settled, resolved or rejected, leaves liveLoading false.
C21_LiveLoadingReset ==
    [][/\ \A p \in LiveIds :
             (live[p].pc = "idle" /\ live'[p].pc # "idle")
                => state'.liveLoading
       /\ (\A p \in LiveIds : live'[p].pc \in {"idle", "resolved", "rejected"})
             => ~state'.liveLoading
      ]_vars

====
